---------------------------- MODULE Spec2Model ----------------------------
(***************************************************************************)
(* Model of visual-learning-backend/venv/app.py: the Flask service that    *)
(* takes a base64 image over POST /api/process-image, decodes and          *)
(* validates it, sends it to the generative model and relays the text.     *)
(*                                                                         *)
(* The request path is                                                     *)
(*   limiter.limit  ->  log_request wrapper  ->  process_image             *)
(* and an exception that leaves the view is turned into a response by the  *)
(* errorhandler(500).  Configuration is the default one (FLASK_DEBUG and   *)
(* FLASK_TESTING unset), so exceptions are not propagated to the server.   *)
(***************************************************************************)
EXTENDS Integers, Sequences, FiniteSets, TLC

(* ------------------------------ bounds -------------------------------- *)
\* largest quota RATE_LIMIT is configured with
MaxQuota == 2
\* requests a client may send beyond the quota within one window
MaxExcess == 2
\* largest multiple of the maximum dimensions an uploaded image has
MaxScale == 3

(* ------------------------- program constants -------------------------- *)
\* Config.MAX_IMAGE_SIZE
MAX_IMAGE_SIZE == <<1920, 1080>>
\* the formats accepted by process_base64_image
ALLOWED_FORMATS == {"jpeg", "png", "gif"}

\* the remote addresses requests come from (get_remote_address)
Clients == {"10.0.0.1", "10.0.0.2"}

Abs(n) == IF n < 0 THEN -n ELSE n
Max(a, b) == IF a >= b THEN a ELSE b

(* ------------------------------ values -------------------------------- *)
\* An image file as PIL sees it: format "" stands for bytes that are not a
\* recognised image.
File(f, w, h) == [format |-> f, w |-> w, h |-> h]
NoFile == File("", 0, 0)

\* A base64 string is a sequence of tokens: a data-URL header, the marker
\* "base64," and chunks of base64 text (well padded or not) that encode a file.
Hdr == [t |-> "data:image/png;", file |-> NoFile]
Marker == [t |-> "base64,", file |-> NoFile]
Chunk(f) == [t |-> "b64", file |-> f]
BadChunk == [t |-> "b64-badpadding", file |-> NoFile]

\* The value of the `image` key: a JSON string, or a JSON number.
Str(s) == [isStr |-> TRUE, s |-> s]
NonStr == [isStr |-> FALSE, s |-> <<>>]

\* A parsed JSON body: null, an object (members = its keys) or an array
\* (members = its elements).
Json(type, members, image) == [type |-> type, members |-> members, image |-> image]

\* Response bodies; "" is an absent field.
ErrBody(msg) == [success |-> FALSE, solution |-> "", error |-> msg, timestamp |-> ""]
\* variant: the success envelope without its timestamp
OkBody_noTimestamp(text) ==
  [success |-> TRUE, solution |-> text, error |-> "", timestamp |-> ""]
OkBody(text) == [success |-> TRUE, solution |-> text, error |-> "", timestamp |-> "utcnow"]

(* ------------------------ Pillow: Image.thumbnail ---------------------- *)
\* round_aspect(y * aspect, key = |aspect - n / y|), aspect = w / h:
\* the nearer of floor and ceil (floor on a tie), at least 1.
RoundAspectX(w, h, y) ==
  LET lo == (y * w) \div h
      hi == IF (y * w) % h = 0 THEN lo ELSE lo + 1
      key(n) == Abs(w * y - n * h)
  IN Max(IF key(lo) <= key(hi) THEN lo ELSE hi, 1)

\* round_aspect(x / aspect, key = 0 if n == 0 else |aspect - x / n|)
RoundAspectY(w, h, x) ==
  LET lo == (x * h) \div w
      hi == IF (x * h) % w = 0 THEN lo ELSE lo + 1
      keyLE == IF lo = 0 THEN TRUE
               ELSE Abs(w * lo - x * h) * hi <= Abs(w * hi - x * h) * lo
  IN Max(IF keyLE THEN lo ELSE hi, 1)

\* image.thumbnail(size): in place, keeps the format, never enlarges.
thumbnail(img, size) ==
  LET x == size[1]
      y == size[2]
  IN IF x >= img.w /\ y >= img.h THEN img
     ELSE IF x * img.h >= img.w * y
          THEN File(img.format, RoundAspectX(img.w, img.h, y), y)
          ELSE File(img.format, x, RoundAspectY(img.w, img.h, x))

(* ----------------------- process_base64_image -------------------------- *)
\* Index of the first "base64," token of s at or after position i (0: none).
RECURSIVE FindMarker(_, _)
FindMarker(s, i) ==
  IF i > Len(s) THEN 0
  ELSE IF s[i] = Marker THEN i
  ELSE FindMarker(s, i + 1)

\* base64_string.split('base64,')[1]: the text between the first marker and
\* the next one (or the end of the string).
SplitSecond(s) ==
  LET m1 == FindMarker(s, 1)
      m2 == FindMarker(s, m1 + 1)
  IN SubSeq(s, m1 + 1, IF m2 = 0 THEN Len(s) ELSE m2 - 1)

\* base64.b64decode: raises on bad padding; otherwise the bytes are a file
\* only when the text is exactly one chunk that encodes one.
b64decode(s) ==
  IF \E i \in 1..Len(s) : s[i] = BadChunk THEN [ok |-> FALSE, file |-> NoFile]
  ELSE IF Len(s) = 1 /\ s[1].t = "b64" THEN [ok |-> TRUE, file |-> s[1].file]
  ELSE [ok |-> TRUE, file |-> NoFile]

\* str.lower() on the format names PIL reports
Lower(f) ==
  CASE f = "JPEG" -> "jpeg"
    [] f = "PNG" -> "png"
    [] f = "GIF" -> "gif"
    [] f = "BMP" -> "bmp"
    [] OTHER -> f

Decoded(img) == [ok |-> TRUE, err |-> "", image |-> img]
DecodeError(msg) ==
  [ok |-> FALSE, err |-> "Failed to process image: " \o msg, image |-> NoFile]

\* variant: resizes only when both dimensions exceed the maximum
NeedsResize_both(img) == img.w > MAX_IMAGE_SIZE[1] /\ img.h > MAX_IMAGE_SIZE[2]

\* line 151: the image is resized when either dimension exceeds the maximum
NeedsResize(img) == img.w > MAX_IMAGE_SIZE[1] \/ img.h > MAX_IMAGE_SIZE[2]

\* Every failure inside the try block, the unsupported-format error included,
\* is re-raised as ImageProcessingError("Failed to process image: ...").
process_base64_image(v) ==
  IF ~v.isStr THEN DecodeError("argument of type 'int' is not iterable")
  ELSE
    LET b64 == IF FindMarker(v.s, 1) # 0 THEN SplitSecond(v.s) ELSE v.s
        data == b64decode(b64)
    IN IF ~data.ok THEN DecodeError("Incorrect padding")
       ELSE IF data.file.format = "" THEN DecodeError("cannot identify image file")
       ELSE IF Lower(data.file.format) \notin ALLOWED_FORMATS
            THEN DecodeError("Unsupported image format")
       ELSE IF NeedsResize(data.file)
            THEN Decoded(thumbnail(data.file, MAX_IMAGE_SIZE))
       ELSE Decoded(data.file)

(* --------------------------- process_image ----------------------------- *)
\* What the view function hands back: kind "response" is a Response object
\* (jsonify(...)), kind "tuple" is the pair (jsonify(...), status).
\* stages: the pipeline stages that ran, in order; sent: the image given to
\* the model (NoFile when it was not called).
Ret(kind, status, body, stages, sent) ==
  [kind |-> kind, status |-> status, body |-> body, stages |-> stages, sent |-> sent]

\* Outcomes of model.generate_content / response.text
TextOut(t) == [kind |-> "text", text |-> t]
EmptyOut == [kind |-> "empty", text |-> ""]
RaiseOut(m) == [kind |-> "raise", text |-> m]
NoOutcome == [kind |-> "not called", text |-> ""]

\* request.is_json
is_json(req) == req.ctype = "application/json"

\* `not data`: None, {} and [] are falsy
Falsy(data) == data.type = "null" \/ data.members = {}

\* variant: the `if not response.text` check is missing
generate_noEmptyCheck(img, out) ==
  LET stages == <<"validate", "decode", "model">>
  IN IF out.kind \in {"text", "empty"}
     THEN Ret("response", 200, OkBody(out.text), stages, img)
     ELSE Ret("tuple", 500, ErrBody("AI processing failed: " \o out.text), stages, img)

\* variant: a failed or empty call is tried a second time
generate_retry(img, out) ==
  IF out.kind = "text"
  THEN Ret("response", 200, OkBody(out.text), <<"validate", "decode", "model">>, img)
  ELSE Ret("tuple", 500, ErrBody("AI processing failed: " \o out.text),
           <<"validate", "decode", "model", "model">>, img)

\* lines 198-217: the model call; every failure, the empty text included,
\* leaves the inner try as AIProcessingError("AI processing failed: ...").
generate(img, out) ==
  LET stages == <<"validate", "decode", "model">>
  IN CASE out.kind = "text" -> Ret("response", 200, OkBody(out.text), stages, img)
       [] out.kind = "empty" ->
            Ret("tuple", 500, ErrBody("AI processing failed: No response generated"),
                stages, img)
       [] OTHER ->
            Ret("tuple", 500, ErrBody("AI processing failed: " \o out.text), stages, img)

\* lines 227-229: any other exception
Unexpected(stages) == Ret("tuple", 500, ErrBody("Internal server error"), stages, NoFile)

process_image(req, out) ==
  IF ~is_json(req)
  THEN Ret("tuple", 415, ErrBody("Content-Type must be application/json"),
           <<"validate">>, NoFile)
  ELSE IF ~req.parses THEN Unexpected(<<"validate">>)  \* get_json() raises BadRequest
  ELSE IF Falsy(req.json) \/ "image" \notin req.json.members
       THEN Ret("tuple", 400, ErrBody("No image data provided"), <<"validate">>, NoFile)
  ELSE IF req.json.type # "object"
       THEN Unexpected(<<"validate">>)  \* data['image'] on a list raises TypeError
  ELSE LET dec == process_base64_image(req.json.image)
       IN IF ~dec.ok
          THEN Ret("tuple", 400, ErrBody(dec.err), <<"validate", "decode">>, NoFile)
          ELSE generate(dec.image, out)

\* TRUE when process_image reaches model.generate_content for this request
CallsModel(req) == process_image(req, EmptyOut).stages = <<"validate", "decode", "model">>

(* ---------------------------- log_request ------------------------------ *)
\* The wrapper reads response.status_code of whatever the view returned.  A
\* tuple has no such attribute: AttributeError leaves the wrapper before the
\* entry is written.
log_request(ret) ==
  IF ret.kind = "response"
  THEN [raised |-> FALSE, ret |-> ret, entries |-> <<[path |-> "/api/process-image",
                                                      status_code |-> ret.status]>>]
  ELSE [raised |-> TRUE, ret |-> ret, entries |-> <<>>]

(* --------------------------- error handlers ---------------------------- *)
\* variant: the 500 handler reports the exception it was given
internal_error_leaks(msg) == [status |-> 500, body |-> ErrBody(msg)]
\* @app.errorhandler(500)
internal_error(msg) == [status |-> 500, body |-> ErrBody("Internal server error")]
\* @app.errorhandler(429)
ratelimit_error == [status |-> 429, body |-> ErrBody("Rate limit exceeded")]

\* Flask: the value the (wrapped) view returns becomes the response; an
\* exception that leaves the view goes to the 500 handler.
Dispatch(wrapped) ==
  IF wrapped.raised
  THEN internal_error("'tuple' object has no attribute 'status_code'")
  ELSE [status |-> wrapped.ret.status, body |-> wrapped.ret.body]

(* ------------------------------ limiter -------------------------------- *)
\* Flask-Limiter, fixed window, keyed by get_remote_address: every request to
\* the route increments the counter of its key ...
LimiterHit(h, c) == [h EXCEPT ![c] = @ + 1]
\* variant: off by one, the N-th request is already rejected
LimiterAllows_offByOne(h, c, amount) == h[c] < amount
\* ... and passes while the counter does not exceed the configured amount.
LimiterAllows(h, c, amount) == h[c] <= amount

(* ------------------------------- inputs -------------------------------- *)
AllFormats == {"JPEG", "PNG", "GIF", "BMP"}

\* Sizes around and beyond one maximum dimension m
Sizes(m) == {1, m - 1, m, m + 1}
              \cup {k * m + 1 : k \in 1..MaxScale}
              \cup {k * 1000 : k \in 1..MaxScale}

\* All files the decoder is exercised on
Files == {File(f, w, h) : f \in AllFormats,
                          w \in Sizes(MAX_IMAGE_SIZE[1]), h \in Sizes(MAX_IMAGE_SIZE[2])}

\* The strings a file can arrive as, with and without the data-URL prefix
Encodings(f) == {Str(<<Chunk(f)>>), Str(<<Hdr, Marker, Chunk(f)>>)}

BrokenValues == {NonStr, Str(<<>>), Str(<<BadChunk>>), Str(<<Hdr, Marker, BadChunk>>),
                 Str(<<Chunk(NoFile)>>), Str(<<Hdr, Marker, Chunk(NoFile)>>),
                 Str(<<Hdr, Chunk(File("PNG", 1, 1))>>)}

ImageValues == BrokenValues \cup UNION {Encodings(f) : f \in Files}

\* The files sent over HTTP: a few sizes of PNG, one of every other format
RequestFiles ==
  {File("PNG", d[1], d[2]) :
      d \in {<<1, 1>>, MAX_IMAGE_SIZE, <<MAX_IMAGE_SIZE[1] + 1, MAX_IMAGE_SIZE[2]>>,
             <<1000 * MaxScale, 1000 * (MaxScale - 1)>>}}
    \cup {File(f, 800, 600) : f \in AllFormats}

RequestImages == BrokenValues \cup UNION {Encodings(f) : f \in RequestFiles}

Request(c, ctype, parses, json) ==
  [client |-> c, ctype |-> ctype, parses |-> parses, json |-> json]

NullJson == Json("null", {}, NonStr)

\* JSON bodies: null, {}, {"other": 1}, [], ["image"], {"image": v}
JsonBodies ==
  {NullJson, Json("object", {}, NonStr), Json("object", {"other"}, NonStr),
   Json("array", {}, NonStr), Json("array", {"image"}, NonStr)}
    \cup {Json("object", {"image"}, v) : v \in RequestImages}

ContentTypes == {"application/json", "text/plain"}

Requests ==
  {Request(c, ct, TRUE, j) : c \in Clients, ct \in ContentTypes, j \in JsonBodies}
    \cup {Request(c, ct, FALSE, NullJson) : c \in Clients, ct \in ContentTypes}

Outcomes == {TextOut("x = 4"), TextOut("The image shows a triangle"), EmptyOut,
             RaiseOut("504 Deadline Exceeded"), RaiseOut("API key not valid")}

(* ------------------------------- state --------------------------------- *)
VARIABLES
  limit,    \* the amount of Config.RATE_LIMIT
  hits,     \* limiter storage: counter of each client in its current window
  sent,     \* history: requests each client sent in its current window
  last,     \* history: the latest request and what the client received
  input,    \* decoder harness: the value given to process_base64_image
  decoded   \* decoder harness: its result

vars == <<limit, hits, sent, last, input, decoded>>

NoRequest == Request("", "", FALSE, NullJson)

\* nth: position of the request among its client's requests in the window
Exchange(req, nth, out, status, body, stages, image, entries) ==
  [req |-> req, nth |-> nth, out |-> out, status |-> status, body |-> body,
   stages |-> stages, image |-> image, entries |-> entries]

NoExchange == Exchange(NoRequest, 0, NoOutcome, 0, ErrBody(""), <<>>, NoFile, <<>>)

Pending == [ok |-> FALSE, err |-> "pending", image |-> NoFile]

\* The route: limiter.limit around log_request around process_image
Serve(req, nth, allowed, out) ==
  IF ~allowed
  THEN Exchange(req, nth, NoOutcome, ratelimit_error.status, ratelimit_error.body,
                <<>>, NoFile, <<>>)
  ELSE LET ret == process_image(req, out)
           wrapped == log_request(ret)
           resp == Dispatch(wrapped)
       IN Exchange(req, nth, out, resp.status, resp.body, ret.stages, ret.sent,
                   wrapped.entries)

Init ==
  /\ limit \in 1..MaxQuota
  /\ hits = [c \in Clients |-> 0]
  /\ sent = [c \in Clients |-> 0]
  /\ last = NoExchange
  /\ input = NonStr
  /\ decoded = Pending

\* POST /api/process-image
PostProcessImage(req) ==
  /\ sent[req.client] < limit + MaxExcess
  /\ LET c == req.client
         h == LimiterHit(hits, c)
         allowed == LimiterAllows(h, c, limit)
     IN /\ hits' = h
        /\ sent' = [sent EXCEPT ![c] = @ + 1]
        /\ \E out \in (IF allowed /\ CallsModel(req) THEN Outcomes ELSE {NoOutcome}) :
             last' = Serve(req, sent'[c], allowed, out)
  /\ UNCHANGED <<limit, input, decoded>>

\* The window of one client's counter expires
WindowExpire(c) ==
  /\ sent[c] > 0
  /\ hits' = [hits EXCEPT ![c] = 0]
  /\ sent' = [sent EXCEPT ![c] = 0]
  /\ UNCHANGED <<limit, last, input, decoded>>

Next ==
  \/ \E req \in Requests : PostProcessImage(req)
  \/ \E c \in Clients : WindowExpire(c)

Spec == Init /\ [][Next]_vars

(* --------------------------- decoder harness ---------------------------- *)
InitImage ==
  /\ limit = 1
  /\ hits = [c \in Clients |-> 0]
  /\ sent = [c \in Clients |-> 0]
  /\ last = NoExchange
  /\ input \in ImageValues
  /\ decoded = Pending

Decode ==
  /\ decoded = Pending
  /\ decoded' = process_base64_image(input)
  /\ UNCHANGED <<limit, hits, sent, last, input>>

NextImage == Decode

SpecImage == InitImage /\ [][NextImage]_vars

TypeOK ==
  /\ limit \in 1..MaxQuota
  /\ \A c \in Clients : hits[c] \in 0..(limit + MaxExcess)
  /\ last.status \in {0, 200, 400, 415, 429, 500}

(* ----------------------------- properties ------------------------------ *)
\* A request has been answered
Answered == last.status # 0
\* The latest request was among the first `limit` of its client in the window
WithinLimit == Answered /\ last.nth <= limit
\* JSON content type and a parseable body
JsonRequest == is_json(last.req) /\ last.req.parses
\* The body is an object that has the `image` key
HasImage == JsonRequest /\ last.req.json.type = "object" /\ "image" \in last.req.json.members
\* ... and the decoder accepts its value
ImageDecodes == HasImage /\ process_base64_image(last.req.json.image).ok
ModelCalls == Cardinality({i \in 1..Len(last.stages) : last.stages[i] = "model"})
GenericBody == ErrBody("Internal server error")

\* C1: a JSON request within the rate limit whose body is an object without
\* the `image` key is answered 400 {"error": "No image data provided"}.
C1_MissingImageIs400 ==
  (WithinLimit /\ JsonRequest /\ last.req.json.type = "object"
     /\ "image" \notin last.req.json.members)
    => (last.status = 400 /\ last.body.error = "No image data provided")

\* C2: a request within the rate limit whose content type is not JSON is
\* answered 415, and neither the decoder nor the model runs for it.
C2_NonJsonIs415 ==
  (WithinLimit /\ ~is_json(last.req))
    => (last.status = 415 /\ last.stages = <<"validate">> /\ ModelCalls = 0)

\* C3: when the image decodes and the model returns empty text the client
\* receives 500, never a 200 / success:true.
C3_EmptyTextIs500 ==
  (Answered /\ last.out.kind = "empty")
    => (last.status = 500 /\ ~last.body.success)

C3_Witness ==
  /\ ImageDecodes /\ last.out.kind = "empty"
  /\ ModelCalls = 1 /\ last.status = 500

\* C4: of one client's requests within one window the first `limit` pass the
\* limiter, every later one is answered 429, and a request answered 429 is
\* neither validated nor decoded nor sent to the model.
C4_QuotaThen429 ==
  Answered =>
    /\ last.nth <= limit => last.status # 429 /\ last.stages # <<>>
    /\ last.nth > limit =>
         (last.status = 429 /\ last.stages = <<>> /\ last.image = NoFile)

C4_Witness ==
  /\ last.nth = limit + 1 /\ last.status = 429
  /\ last.req.ctype = "application/json" /\ HasImage

\* C5: a JSON request with an `image` field whose decoding fails is answered
\* 400 with the decoder's message, and the model is not called.
C5_DecodeFailureIs400 ==
  (WithinLimit /\ HasImage /\ ~ImageDecodes)
    => /\ last.status = 400
       /\ last.body.error = process_base64_image(last.req.json.image).err
       /\ ModelCalls = 0

\* C6: a JSON request within the rate limit whose image decodes and whose
\* model call returns non-empty text T is answered 200 with success = true,
\* solution = T and a timestamp; 200 is the answer in this case only.
C6_SuccessIs200 ==
  LET success == WithinLimit /\ ImageDecodes /\ last.out.kind = "text" /\ last.out.text # ""
  IN /\ success => /\ last.status = 200
                   /\ last.body.success
                   /\ last.body.solution = last.out.text
                   /\ last.body.timestamp # ""
     /\ last.status = 200 => success

C6_Witness ==
  /\ last.status = 200 /\ last.body.solution = "x = 4"
  /\ last.image = File("PNG", 1620, 1080)

\* C7: an exception that is neither a decode error nor a model error (a body
\* that is not JSON, an array body containing "image") ends in a 500 with the
\* fixed body, and no 500 the client receives carries anything else.
C7_Generic500 ==
  /\ (WithinLimit /\ is_json(last.req)
        /\ (~last.req.parses
              \/ (last.req.json.type = "array" /\ "image" \in last.req.json.members)))
       => (last.status = 500 /\ last.body = GenericBody)
  /\ last.status = 500 => last.body = GenericBody

C7_Witness ==
  /\ WithinLimit /\ is_json(last.req) /\ ~last.req.parses
  /\ last.status = 500 /\ last.body = GenericBody

\* The file a decoded input encodes
SourceFile == input.s[Len(input.s)].file

\* |a - b * n / d| < 1
WithinOnePixel(a, b, n, d) == Abs(a * d - b * n) < d

\* C8: an accepted image larger than 1920x1080 comes back within 1920x1080
\* with its aspect ratio kept up to one pixel; an accepted image within
\* 1920x1080 comes back with the same format and dimensions.
C8_ResizeWithinMax ==
  decoded.ok =>
    LET src == SourceFile
        img == decoded.image
    IN /\ img.w <= 1920 /\ img.h <= 1080
       /\ (src.w > 1920 \/ src.h > 1080) =>
            \/ WithinOnePixel(img.w, img.h, src.w, src.h)
            \/ WithinOnePixel(img.h, img.w, src.h, src.w)
       /\ (src.w <= 1920 /\ src.h <= 1080) => img = src

C8_Witness ==
  /\ decoded.ok
  /\ SourceFile = File("GIF", 1000, 2161)
  /\ decoded.image = File("GIF", 500, 1080)

\* C9: the model is called at most once per request and only after validation
\* and decoding succeeded; a stage that fails is the last stage that runs and
\* the request ends with an error response.
C9_LinearPipeline ==
  Answered =>
    /\ ModelCalls <= 1
    /\ ModelCalls = 1 => (ImageDecodes /\ last.stages = <<"validate", "decode", "model">>)
    /\ (last.status # 429 /\ ~HasImage) => last.stages = <<"validate">>
    /\ (last.status # 429 /\ HasImage /\ ~ImageDecodes)
         => last.stages = <<"validate", "decode">>
    /\ last.status # 200 => (last.body.error # "" /\ ~last.body.success)

C9_Witness ==
  /\ last.out.kind = "raise" /\ ModelCalls = 1
  /\ last.status = 500 /\ last.body.error # ""

\* C10: every request that passes the limiter leaves exactly one entry in the
\* request log, and the entry's status_code is the status the client receives.
C10_OneLogEntry ==
  (Answered /\ last.status # 429)
    => (Len(last.entries) = 1 /\ last.entries[1].status_code = last.status)

=============================================================================
